---- MODULE Spec2Model ----
(***************************************************************************)
(* Model of rescale.py: the Hetzner cloud server scaler.                   *)
(*                                                                         *)
(* One run of main() is a sequential program.  Its state is the position   *)
(* in main() (pc), the operator's answer, the wall clock, the local        *)
(* variables of wait_for_server_status, and what the run has done to the   *)
(* outside world: the remote calls it issued (calls), the lines it wrote   *)
(* to the console (out) and the process exit code.  The provider and the   *)
(* operator are the environment: every response of the remote API and      *)
(* every answer to the prompt is chosen nondeterministically.              *)
(***************************************************************************)
EXTENDS Integers, Sequences, FiniteSets, TLC

VARIABLES pc, confirm, prompts, now, start_time, target, timeout, calls, out,
          exit_code

vars == <<pc, confirm, prompts, now, start_time, target, timeout, calls, out,
          exit_code>>

(* ---------------------------- bounds ----------------------------------- *)

\* the default of wait_for_server_status(timeout=300), scaled down; no caller
\* passes another value
Timeout == 1

\* a status fetch takes between 0 and MaxDelay time units.  The time a POST
\* takes is not modelled: the program reads the clock only after it returned
MaxDelay == 1

Delays == 0..MaxDelay

(* ------------------------ program constants ---------------------------- *)

\* time.sleep(1) in the polling loop
Interval == 1

\* time.sleep(5) after the server was seen off
SettleTime == 5

\* status_code=200 default of wait_for_server_status, and server_is_running
FetchOk == 200

\* expected code of an accepted action
ActionOk == 201

\* exit_code while the process has not exited
NotExited == -1

\* no HTTP response: requests raised an exception
Raised == 0

(* --------------------------- environment ------------------------------- *)

\* status values the provider reports; the program only ever compares them
\* with "running" and "off", so "starting" and "stopping" stand for every
\* other provider state
Statuses == {"running", "off", "starting", "stopping"}

\* outcomes of GET /servers/{id}
FetchResponses ==
    [code : {FetchOk}, status : Statuses]
    \cup [code : {404, Raised}, status : {"none"}]

\* outcomes of POST /servers/{id}/actions/{action}
ActionCodes == {ActionOk, 200, 422, Raised}

\* answers the operator can type, as sequences of characters
Answers == { <<"y">>, <<"Y">>, <<"n">>, <<"N">>, <<>>,
             <<"y", "e", "s">>, <<"Y", "E", "S">>, <<"y", " ">> }

(* ----------------------------- helpers --------------------------------- *)

\* str.lower() on one character of the alphabet used in Answers
LowerChar(c) ==
    CASE c = "Y" -> "y"
      [] c = "N" -> "n"
      [] c = "E" -> "e"
      [] c = "S" -> "s"
      [] OTHER -> c

Lower_Identity(s) == s

\* str.lower()
Lower(s) == [i \in DOMAIN s |-> LowerChar(s[i])]

Affirmative_Prefix(answer) ==
    Len(answer) > 0 /\ Lower(answer)[1] = "y"

\* not (confirm.lower() != "y")
Affirmative(answer) == Lower(answer) = <<"y">>

\* requests.get(f"{base_url}/servers/{server_id}") as seen by the provider
GetCall(resp, t) ==
    [kind |-> "get", action |-> "server", code |-> resp.code,
     status |-> resp.status, t |-> t]

\* requests.post(f"{base_url}/servers/{server_id}/actions/{action}")
ServerAction(action, code, t) ==
    [kind |-> "post", action |-> action, code |-> code,
     status |-> "none", t |-> t]

\* requests.post(f"{base_url}/servers/{server_id}/actions/change_type")
ChangeServerType(code, t) ==
    [kind |-> "post", action |-> "change_type", code |-> code,
     status |-> "none", t |-> t]

StopAction_Reboot == "reboot"

\* the action stop_server asks for
StopAction == "poweroff"

IsRunning_NotOff(resp) ==
    IF resp.code = FetchOk
    THEN (IF resp.status # "off" THEN "True" ELSE "False")
    ELSE "None"

IsRunning_FalseOnError(resp) ==
    IF resp.code = FetchOk
    THEN (IF resp.status = "running" THEN "True" ELSE "False")
    ELSE "False"

\* return value of server_is_running, given the response to its fetch
IsRunning(resp) ==
    IF resp.code = FetchOk
    THEN (IF resp.status = "running" THEN "True" ELSE "False")
    ELSE "None"

StopAccepted_AnySuccess(code) == code \in {200, 201}

\* stop_response.status_code == 201
StopAccepted(code) == code = ActionOk

ScaleAccepted_AnySuccess(code) == code \in {200, 201}

\* change_response.status_code == 201
ScaleAccepted(code) == code = ActionOk

WaitStep_DeadlineFirst(resp, status, elapsed) ==
    IF resp.code = FetchOk
    THEN (IF elapsed > timeout THEN "timeout"
          ELSE IF resp.status = status THEN "True"
          ELSE "continue")
    ELSE "False"

WaitStep_RetryOnError(resp, status, elapsed) ==
    IF resp.code = FetchOk /\ resp.status = status THEN "True"
    ELSE IF elapsed > timeout THEN "timeout"
    ELSE "continue"

WaitStep_LateDeadline(resp, status, elapsed) ==
    IF resp.code = FetchOk
    THEN (IF resp.status = status THEN "True"
          ELSE IF elapsed > timeout + 1 THEN "timeout"
          ELSE "continue")
    ELSE "False"

WaitStep_NoStatusTest(resp, status, elapsed) ==
    IF resp.code = FetchOk THEN "True" ELSE "False"

WaitStep_NoDeadline(resp, status, elapsed) ==
    IF resp.code = FetchOk
    THEN (IF resp.status = status THEN "True" ELSE "continue")
    ELSE "False"

\* one iteration of the loop of wait_for_server_status, after its fetch:
\* "True" / "False" are its return values, "timeout" is the False returned
\* by the deadline test, "continue" goes on to the sleep
WaitStep(resp, status, elapsed) ==
    IF resp.code = FetchOk
    THEN (IF resp.status = status THEN "True"
          ELSE IF elapsed > timeout THEN "timeout"
          ELSE "continue")
    ELSE "False"

\* sys.exit(...) or the normal end of main(): the process is gone
Exit(code, msgs) ==
    /\ pc' = "exit"
    /\ exit_code' = code
    /\ out' = out \o msgs

\* main() goes on to its next step
Goto(p, msgs) ==
    /\ pc' = p
    /\ exit_code' = exit_code
    /\ out' = out \o msgs

\* an exception of the transport library that nothing catches
Uncaught == Exit(1, <<"Traceback">>)

AfterWait_IgnoreResult(ok, msgs) ==
    IF target = "off"
    THEN Goto("settle", msgs \o <<"Server stopped successfully.",
                                  "Waiting 5 seconds before proceeding.">>)
    ELSE Exit(0, msgs \o <<"Rescaled server now accessible">>)

\* what the callers of wait_for_server_status do with its return value:
\* stop_server (target "off") and main (target "running")
AfterWait(ok, msgs) ==
    IF target = "off"
    THEN IF ok
         THEN Goto("settle", msgs \o <<"Server stopped successfully.",
                                       "Waiting 5 seconds before proceeding.">>)
         ELSE Exit(1, msgs \o <<"Failed to stop server.", "Aborted.">>)
    ELSE IF ok
         THEN Exit(0, msgs \o <<"Rescaled server now accessible">>)
         ELSE Exit(1, msgs \o <<"Failed to restart rescaled server.">>)

(* ------------------------------ state ---------------------------------- *)

Init ==
    /\ pc = "confirm"
    /\ confirm = <<>>
    /\ prompts = 0
    /\ now = 0
    /\ start_time = 0
    /\ target = "none"
    /\ timeout = Timeout
    /\ calls = <<>>
    /\ out = <<>>
    /\ exit_code = NotExited

(* ----------------------------- actions --------------------------------- *)

Confirm_Reask ==
    /\ pc = "confirm"
    /\ \E answer \in Answers :
         /\ confirm' = answer
         /\ prompts' = prompts + 1
         /\ IF Affirmative(answer)
            THEN Goto("check", <<"Do you want to proceed?">>)
            ELSE IF Lower(answer) = <<"n">>
                 THEN Exit(1, <<"Do you want to proceed?", "Aborted.">>)
                 ELSE Goto("confirm", <<"Do you want to proceed?">>)
    /\ UNCHANGED <<now, start_time, target, timeout, calls>>

\* main(): the confirmation prompt
Confirm ==
    /\ pc = "confirm"
    /\ \E answer \in Answers :
         /\ confirm' = answer
         /\ prompts' = prompts + 1
         /\ IF Affirmative(answer)
            THEN Goto("check", <<"Do you want to proceed?">>)
            ELSE Exit(1, <<"Do you want to proceed?", "Aborted.">>)
    /\ UNCHANGED <<now, start_time, target, timeout, calls>>

\* main(): running = server_is_running(server_id) and the branch on it
CheckRunning ==
    /\ pc = "check"
    /\ \E resp \in FetchResponses, d \in Delays :
         /\ calls' = Append(calls, GetCall(resp, now))
         /\ now' = now + d
         /\ IF resp.code = Raised
            THEN Uncaught
            ELSE LET running == IsRunning(resp) IN
                 CASE running = "None" ->
                        Exit(1, <<"Error",
                                  "Error occurred while checking server's running status.",
                                  "Aborted.">>)
                   [] running = "True" ->
                        Goto("stop", <<"Server is currently running.">>)
                   [] running = "False" ->
                        Goto("scale", <<"Server is not running.">>)
    /\ UNCHANGED <<confirm, prompts, start_time, target, timeout>>

StopServer_Retry ==
    /\ pc = "stop"
    /\ \E code \in ActionCodes :
         /\ calls' = Append(calls, ServerAction(StopAction, code, now))
         /\ IF code = Raised
            THEN Uncaught /\ UNCHANGED <<start_time, target>>
            ELSE IF StopAccepted(code)
                 THEN /\ Goto("wait_fetch", <<"Server stopping...">>)
                      /\ target' = "off"
                      /\ start_time' = now
                 ELSE /\ Goto("stop", <<"Error">>)
                      /\ UNCHANGED <<start_time, target>>
    /\ UNCHANGED <<confirm, prompts, now, timeout>>

\* stop_server(): the poweroff request, up to the start of the wait for off
StopServer ==
    /\ pc = "stop"
    /\ \E code \in ActionCodes :
         /\ calls' = Append(calls, ServerAction(StopAction, code, now))
         /\ IF code = Raised
            THEN Uncaught /\ UNCHANGED <<start_time, target>>
            ELSE IF StopAccepted(code)
                 THEN /\ Goto("wait_fetch", <<"Server stopping...">>)
                      /\ target' = "off"
                      /\ start_time' = now
                 ELSE /\ Exit(1, <<"Error", "Aborted.">>)
                      /\ UNCHANGED <<start_time, target>>
    /\ UNCHANGED <<confirm, prompts, now, timeout>>

\* wait_for_server_status(): one fetch, the tests on it, and the return
WaitFetch ==
    /\ pc = "wait_fetch"
    /\ \E resp \in FetchResponses, d \in Delays :
         /\ calls' = Append(calls, GetCall(resp, now))
         /\ now' = now + d
         /\ IF resp.code = Raised
            THEN Uncaught
            ELSE LET r == WaitStep(resp, target, now' - start_time) IN
                 CASE r = "True" -> AfterWait(TRUE, <<>>)
                   [] r = "False" -> AfterWait(FALSE, <<"Error">>)
                   [] r = "timeout" ->
                        AfterWait(FALSE,
                            <<"Timed out waiting for server status change.">>)
                   [] r = "continue" -> Goto("wait_sleep", <<>>)
    /\ UNCHANGED <<confirm, prompts, start_time, target, timeout>>

\* wait_for_server_status(): time.sleep(1)
WaitSleep ==
    /\ pc = "wait_sleep"
    /\ now' = now + Interval
    /\ pc' = "wait_fetch"
    /\ UNCHANGED <<confirm, prompts, start_time, target, timeout, calls, out,
                   exit_code>>

Settle_Short ==
    /\ pc = "settle"
    /\ now' = now + Interval
    /\ pc' = "scale"
    /\ UNCHANGED <<confirm, prompts, start_time, target, timeout, calls, out,
                   exit_code>>

\* stop_server(): time.sleep(5) and return True
Settle ==
    /\ pc = "settle"
    /\ now' = now + SettleTime
    /\ pc' = "scale"
    /\ UNCHANGED <<confirm, prompts, start_time, target, timeout, calls, out,
                   exit_code>>

\* scale_server() and main()'s branch on it, up to the start of the wait
ScaleServer ==
    /\ pc = "scale"
    /\ \E code \in ActionCodes :
         /\ calls' = Append(calls, ChangeServerType(code, now))
         /\ IF code = Raised
            THEN Uncaught /\ UNCHANGED <<start_time, target>>
            ELSE IF ScaleAccepted(code)
                 THEN /\ Goto("wait_fetch",
                              <<"Server scaling started successfully.",
                                "Waiting for server to boot.">>)
                      /\ target' = "running"
                      /\ start_time' = now
                 ELSE /\ Exit(1, <<"Error", "Aborted.">>)
                      /\ UNCHANGED <<start_time, target>>
    /\ UNCHANGED <<confirm, prompts, now, timeout>>

Next ==
    \/ Confirm
    \/ CheckRunning
    \/ StopServer
    \/ WaitFetch
    \/ WaitSleep
    \/ Settle
    \/ ScaleServer

Spec == Init /\ [][Next]_vars

\* main() runs to its end: every remote call returns, the operator answers
\* the prompt and every sleep ends
FairSpec == Spec /\ WF_vars(Next)

(* ----------------------- cooperative provider -------------------------- *)

\* the call just issued got the code that counts as success for its kind
Answered ==
    /\ calls' # calls
    /\ calls'[Len(calls')].code = (IF calls'[Len(calls')].kind = "get"
                                   THEN FetchOk ELSE ActionOk)

\* the server has reached the awaited status by the time the timeout has
\* passed: a poll that completes then reports it
InTime ==
    (now' - start_time >= timeout) => calls'[Len(calls')].status = target

CoopCheckRunning == CheckRunning /\ Answered

CoopStopServer == StopServer /\ Answered

CoopWaitFetch == WaitFetch /\ Answered /\ InTime

CoopScaleServer == ScaleServer /\ Answered

CoopNext ==
    \/ Confirm
    \/ CoopCheckRunning
    \/ CoopStopServer
    \/ CoopWaitFetch
    \/ WaitSleep
    \/ Settle
    \/ CoopScaleServer

\* a run against a cooperative provider that is not held up for ever
CoopSpec == Init /\ [][CoopNext]_vars /\ WF_vars(CoopNext)

(* ------------------- the poller as a function -------------------------- *)

\* a call wait_for_server_status(server_id, status, timeout=...) on its own:
\* the arguments are drawn from small sets, the clock starts at the call
PollInit ==
    /\ pc = "wait_fetch"
    /\ confirm = <<"y">>
    /\ prompts = 1
    /\ now = 0
    /\ start_time = 0
    /\ target \in {"off", "running"}
    /\ timeout \in 0..Timeout
    /\ calls = <<>>
    /\ out = <<>>
    /\ exit_code = NotExited

PollNext ==
    \/ WaitFetch
    \/ WaitSleep

PollSpec == PollInit /\ [][PollNext]_vars

(* --------------------- vocabulary of the properties -------------------- *)

Range(seq) == {seq[i] : i \in DOMAIN seq}

IsFetch(c) == c.kind = "get"

IsPoweroff(c) == c.kind = "post" /\ c.action = "poweroff"

IsChangeType(c) == c.kind = "post" /\ c.action = "change_type"

\* a state-changing call
IsMutation(c) == c.kind = "post"

\* the fetch succeeded and reported status st
Reported(c, st) == IsFetch(c) /\ c.code = 200 /\ c.status = st

\* the call did not get the code that counts as success for its kind
FailedCall(c) == IF IsFetch(c) THEN c.code # 200 ELSE c.code # 201

Count(P(_)) == Cardinality({i \in DOMAIN calls : P(calls[i])})

HasMutation == \E i \in DOMAIN calls : IsMutation(calls[i])

AnswerIsYes == confirm \in {<<"y">>, <<"Y">>}

Terminated == pc = "exit"

ExitedNonZero == pc = "exit" /\ exit_code # 0 /\ exit_code # NotExited

Done == pc = "exit" /\ exit_code = 0

TimedOut == "Timed out waiting for server status change." \in Range(out)

Last == calls[Len(calls)]

(* ------------------------------ claims --------------------------------- *)

C3_StopBeforeResize ==
    (calls # <<>> /\ Reported(calls[1], "running")) =>
        /\ (Len(calls) >= 2 => IsPoweroff(calls[2]))
        /\ (Terminated => Len(calls) >= 2)
        /\ \A i \in DOMAIN calls :
             IsChangeType(calls[i]) =>
                \E k, j \in DOMAIN calls :
                    /\ k < j /\ j < i
                    /\ IsPoweroff(calls[k]) /\ calls[k].code = 201
                    /\ Reported(calls[j], "off")
        /\ (target = "off" /\ (TimedOut \/ (IsFetch(Last) /\ Last.code # 200))) =>
                (ExitedNonZero /\ Count(IsChangeType) = 0)

C3_Witness ==
    /\ calls # <<>> /\ Reported(calls[1], "running")
    /\ target = "off" /\ TimedOut
    /\ Len(calls) = 5

\* C4: when the initial fetch succeeds with any status other than running,
\* the stopping phase is skipped: no poweroff, no wait for off, no settle
\* pause, and the call after the initial fetch is change_type.
C4_SkipStopping ==
    (calls # <<>> /\ calls[1].code = 200 /\ calls[1].status # "running") =>
        /\ Count(IsPoweroff) = 0
        /\ target # "off"
        /\ pc \notin {"stop", "settle"}
        /\ "Server stopping..." \notin Range(out)
        /\ "Waiting 5 seconds before proceeding." \notin Range(out)
        /\ (Len(calls) = 1 => pc = "scale")
        /\ (Len(calls) >= 2 => IsChangeType(calls[2]))

C4_Witness ==
    /\ calls # <<>> /\ Reported(calls[1], "stopping")
    /\ Len(calls) >= 3
    /\ IsChangeType(calls[2])

\* C5: a run in which a wait step ended by timeout has exited with a
\* non-zero code; it never reports success or exits 0.
C5_TimeoutFails ==
    TimedOut =>
        /\ ExitedNonZero
        /\ "Rescaled server now accessible" \notin Range(out)

C5_Witness ==
    TimedOut /\ target = "running" /\ Count(IsPoweroff) = 1

\* C6: the run exits 0 only when change_type was accepted with 201 and the
\* last call, made after it, is a fetch that reported running; and the run
\* leaves the stopping phase for resizing only when its last fetch, made
\* after the accepted poweroff, reported off.
C6_DoneOnlyAfterObservedRunning ==
    /\ Done =>
         /\ Reported(Last, "running")
         /\ \E i \in DOMAIN calls :
              i < Len(calls) /\ IsChangeType(calls[i]) /\ calls[i].code = 201
    /\ (pc = "settle" \/ (pc = "scale" /\ Len(calls) > 1)) =>
         /\ Reported(Last, "off")
         /\ \E i \in DOMAIN calls :
              i < Len(calls) /\ IsPoweroff(calls[i]) /\ calls[i].code = 201

C6_Witness ==
    Done /\ Count(IsPoweroff) = 1 /\ Len(calls) >= 6

\* C7: poweroff and change_type are each issued at most once, a failed call
\* is the last call of the run, and once a step has failed (fetch error,
\* action not accepted, timeout) the run has exited non-zero and issues no
\* further remote call.
StepFailed == TimedOut \/ \E i \in DOMAIN calls : FailedCall(calls[i])

C7_NoRetries ==
    [][ /\ Count(IsPoweroff)' <= 1
        /\ Count(IsChangeType)' <= 1
        /\ (\A i \in DOMAIN calls' : FailedCall(calls'[i]) => i = Len(calls'))
        /\ (StepFailed' => ExitedNonZero')
        /\ (StepFailed => calls' = calls) ]_vars

C7_Witness ==
    /\ Len(calls) >= 4
    /\ FailedCall(Last) /\ Last.code = 404
    /\ Count(IsPoweroff) = 1 /\ Count(IsChangeType) = 1

\* C8: when the initial fetch returns a code other than 200, the run exits
\* non-zero and that fetch is the only remote call: no poweroff, no
\* change_type.
C8_InitialFetchFails ==
    (calls # <<>> /\ calls[1].code # 200) =>
        (ExitedNonZero /\ Len(calls) = 1 /\ ~HasMutation)

C8_Witness ==
    calls # <<>> /\ calls[1].code = 404 /\ Terminated

\* C9: an action (poweroff or change_type) answered with any code other
\* than 201, 200 included, is the last call of the run: no poll and no
\* change_type follow it, and the run exits non-zero.
C9_ActionNotAccepted ==
    \A i \in DOMAIN calls :
        (IsMutation(calls[i]) /\ calls[i].code # 201) =>
            (i = Len(calls) /\ ExitedNonZero)

C9_Witness ==
    /\ Len(calls) >= 2
    /\ IsChangeType(Last) /\ Last.code = 200
    /\ IsPoweroff(calls[2])

\* C10: the only state-changing calls are poweroff and change_type (never
\* poweron or reboot), and every call after an accepted change_type is a
\* status fetch.
C10_NoPowerOn ==
    /\ \A i \in DOMAIN calls :
         IsMutation(calls[i]) => (IsPoweroff(calls[i]) \/ IsChangeType(calls[i]))
    /\ \A i, j \in DOMAIN calls :
         (i < j /\ IsChangeType(calls[i]) /\ calls[i].code = 201) =>
            IsFetch(calls[j])

C10_Witness ==
    /\ Terminated
    /\ Count(IsPoweroff) = 1
    /\ \E i \in DOMAIN calls :
         IsChangeType(calls[i]) /\ calls[i].code = 201 /\ Len(calls) >= i + 2

\* C11: the initial status fetch precedes the confirmation prompt: whenever
\* the prompt has been shown, the status fetch has already been issued.
C11_FetchBeforePrompt ==
    prompts > 0 => (calls # <<>> /\ IsFetch(calls[1]))

\* elapsed time of the wait in progress, as the loop computes it
Elapsed == now - start_time

\* wait_for_server_status has just returned True
WaitSucceeded == pc = "settle" \/ Done

\* C13 as stated: the poller never returns success at a moment when the
\* elapsed time is greater than the timeout.
C13_NoLateSuccess ==
    WaitSucceeded => Elapsed <= timeout

\* C13 amended: a fetch of the poller that completes after the timeout has
\* passed ends the wait: it is never followed by a sleep or another fetch;
\* the wait returns success when that fetch reported the target status and
\* fails (non-zero exit) otherwise.
C13_DeadlineEndsWait ==
    [][ (pc = "wait_fetch" /\ now' - start_time > timeout) =>
            IF Reported(Last', target)
            THEN WaitSucceeded'
            ELSE ExitedNonZero' ]_vars

C13_Witness ==
    WaitSucceeded /\ Elapsed > timeout /\ Reported(Last, target)

\* C14: a poll of the poller that returns a code other than 200 is the last
\* remote call of the run, and the run exits non-zero in that same step: no
\* sleep and no further fetch follow, however much of the timeout remains.
C14_PollErrorAbandons ==
    [][ /\ (pc = "wait_fetch" /\ FailedCall(Last')) =>
              (ExitedNonZero' /\ now' <= now + MaxDelay)
        /\ \A i \in DOMAIN calls' :
              (i > 1 /\ IsFetch(calls'[i]) /\ calls'[i].code # 200) =>
                  (i = Len(calls') /\ ExitedNonZero') ]_vars

C14_Witness ==
    /\ Len(calls) >= 3
    /\ IsFetch(Last) /\ Last.code = 404
    /\ Elapsed < timeout
    /\ Terminated

\* the number of settle pauses announced on the console
Settles ==
    Cardinality({i \in DOMAIN out :
                    out[i] = "Waiting 5 seconds before proceeding."})

\* the poller has seen the server off after an accepted poweroff
StoppedServer ==
    \E k, j \in DOMAIN calls :
        /\ k < j
        /\ IsPoweroff(calls[k]) /\ calls[k].code = 201
        /\ Reported(calls[j], "off")

\* C15: the settle pause starts when the poller sees off after poweroff,
\* lasts at least 5 time units during which no remote call is made, and
\* change_type is issued only after it; the pause happens exactly once in a
\* run that stopped the server and never when stopping is skipped or fails.
C15_SettlePause ==
    [][ /\ (pc' = "settle" /\ pc # "settle") =>
              (pc = "wait_fetch" /\ target = "off" /\ Reported(Last', "off"))
        /\ (pc = "settle") =>
              (now' >= now + 5 /\ calls' = calls /\ pc' = "scale")
        /\ (calls' # calls /\ IsChangeType(Last')) => pc = "scale"
        /\ (pc' = "scale" /\ pc # "scale") =>
              (pc = "settle" \/ (pc = "check" /\ ~Reported(Last', "running")))
        /\ (calls' # calls /\ IsChangeType(Last') /\ Len(calls) > 1) =>
              (Reported(Last, "off") /\ now >= Last.t + 5)
        /\ Settles' = (IF StoppedServer' THEN 1 ELSE 0) ]_vars

C15_Witness ==
    /\ Count(IsPoweroff) = 1 /\ Count(IsChangeType) = 1
    /\ Settles = 1
    /\ \E i \in DOMAIN calls :
         i > 1 /\ IsChangeType(calls[i]) /\ calls[i].t >= calls[i-1].t + 6

\* the run ended at the confirmation prompt
AbortedAtGate == ExitedNonZero /\ calls = <<>>

WaitFailed == ExitedNonZero /\ "Traceback" \notin Range(out)

\* C16: the poller fetches before it tests anything, for every timeout
\* (0 included), and tests the status before the deadline.  It returns True
\* exactly when its last fetch returned 200 with the target status, False
\* exactly when that fetch returned another code, or 200 with another
\* status while the elapsed time exceeded the timeout; a 200 fetch with
\* another status before the deadline leads to a sleep of one interval and
\* then another fetch.
C16_PollerContract ==
    [][ /\ (pc = "wait_fetch") =>
              /\ calls' = Append(calls, Last') /\ IsFetch(Last')
              /\ WaitSucceeded' <=> Reported(Last', target)
              /\ WaitFailed' <=>
                    \/ Last'.code \notin {200, Raised}
                    \/ /\ Last'.code = 200 /\ Last'.status # target
                       /\ now' - start_time > timeout
              /\ (pc' = "wait_sleep") <=>
                    /\ Last'.code = 200 /\ Last'.status # target
                    /\ now' - start_time <= timeout
        /\ (pc = "wait_sleep") =>
              (now' = now + 1 /\ calls' = calls /\ pc' = "wait_fetch")
        /\ (pc' # "wait_fetch") => calls' # <<>> ]_vars

C16_Witness ==
    /\ timeout = 0
    /\ Len(calls) = 1
    /\ WaitSucceeded
    /\ Elapsed > timeout

\* the shape of a successful run that had to stop the server
ViaStopping ==
    /\ IsPoweroff(calls[2])
    /\ Settles = 1
    /\ \E i \in DOMAIN calls :
         /\ i > 2 /\ IsChangeType(calls[i])
         /\ Reported(calls[i-1], "off")
         /\ \A j \in 3..(i-1) : IsFetch(calls[j])
         /\ \A j \in (i+1)..Len(calls) : IsFetch(calls[j])

\* the shape of a successful run that skipped the stopping phase
SkippingStop ==
    /\ IsChangeType(calls[2])
    /\ Settles = 0
    /\ \A j \in 3..Len(calls) : IsFetch(calls[j])

\* C12: against a cooperative provider every confirmed run reaches Done with
\* exit code 0 and never ends otherwise: from running through poweroff, the
\* wait for off, the settle pause, change_type and the wait for running;
\* from any other status through change_type and the wait for running, with
\* the stopping phase skipped.
C12_CooperativeRunSucceeds ==
    /\ (prompts > 0 /\ AnswerIsYes) ~> Done
    /\ [](AnswerIsYes /\ Terminated => Done)
    /\ [](Done => /\ Reported(Last, "running")
                  /\ IF Reported(calls[1], "running")
                     THEN ViaStopping ELSE SkippingStop)

C12_Witness ==
    /\ Done
    /\ Reported(calls[1], "running")
    /\ Len(calls) >= 7
    /\ Elapsed > timeout

\* the number of polls of the wait that follows the action calls[i]
PollsAfter(i) ==
    Cardinality({j \in DOMAIN calls :
                    j > i /\ \A k \in (i+1)..j : IsFetch(calls[k])})

\* C17: every run terminates, in Done or with a non-zero exit code, and no
\* wait step makes more than timeout + 2 fetches.
C17_Terminates ==
    /\ <>(Done \/ ExitedNonZero)
    /\ [](\A i \in DOMAIN calls :
             IsMutation(calls[i]) => PollsAfter(i) <= timeout + 2)

C17_Witness ==
    /\ ExitedNonZero /\ TimedOut
    /\ \E i \in DOMAIN calls :
         IsChangeType(calls[i]) /\ PollsAfter(i) = timeout + 2

====
